---- MODULE Spec2Model ----
(***************************************************************************)
(* Model of the gate/payment backend (backend-1/src/routes/index.js).      *)
(*                                                                         *)
(* State: the Payment collection, the GuestNumber collection (guest        *)
(* ledger), the Number collection (whitelist), the four module-level       *)
(* gateTrigger* variables (the gate mailbox), the wall clock, and the      *)
(* position and local variables of every request handler in flight.        *)
(*                                                                         *)
(* Every route handler is an async function: the code between two awaits   *)
(* runs without interleaving, so each action below is one such stretch.    *)
(* Calls to the payment gateway read and write no state of this program;   *)
(* their answers are inputs chosen when the stretch that uses them runs.   *)
(***************************************************************************)
EXTENDS Integers, Sequences, FiniteSets, TLC

----------------------------------------------------------------------------
(* Bounds of the model *)

\* number of request handlers that can be in flight at once
MaxHandlers == 2
\* number of gateway orders (create-payment requests that reach the gateway)
MaxOrders == 1
\* number of gateway orders in the runs of the webhook alone
MaxHookOrders == 2
\* instants at which the clock is read: half-TTL steps of the gate routes
MaxTicks == 3
\* instants at which the clock is read: half-TTL steps of the payment routes
MaxPayTicks == 1

----------------------------------------------------------------------------
(* Values *)

\* JavaScript null for a Date field / a string field / a document
NullTime == 0 - 1
NullStr == "null"

\* index.js:108, 806: new Date(Date.now() + 10000)
GateTTL == 10000
\* index.js:134: numberPlate.length !== 10
PlateLength == 10
\* index.js:132: amount = 50
DefaultAmount == 50

\* the instants at which a gate route can read the clock: every half TTL and
\* one millisecond after, so that a poll can fall exactly on an expiry instant
\* and one millisecond past it
GateInstants == {(k * (GateTTL \div 2)) + e : k \in 0..MaxTicks, e \in 0..1}
\* the instants at which a payment route can read the clock
PayInstants == {k * (GateTTL \div 2) : k \in 0..MaxPayTicks}

LowerAlpha == <<"a", "b", "c", "d", "e", "f", "g", "h", "i", "j", "k", "l", "m",
                "n", "o", "p", "q", "r", "s", "t", "u", "v", "w", "x", "y", "z">>
UpperAlpha == <<"A", "B", "C", "D", "E", "F", "G", "H", "I", "J", "K", "L", "M",
                "N", "O", "P", "Q", "R", "S", "T", "U", "V", "W", "X", "Y", "Z">>

\* String.prototype.toUpperCase on one character
UpperChar(c) ==
    IF \E i \in 1..Len(LowerAlpha) : LowerAlpha[i] = c
    THEN UpperAlpha[CHOOSE i \in 1..Len(LowerAlpha) : LowerAlpha[i] = c]
    ELSE c

\* String.prototype.toUpperCase; a plate is the sequence of its characters
toUpperCase(s) == [i \in 1..Len(s) |-> UpperChar(s[i])]

\* plates that requests carry
PlateDL == <<"D", "L", "0", "1", "A", "B", "2", "3", "4", "5">>
PlateDLlower == <<"d", "l", "0", "1", "a", "b", "2", "3", "4", "5">>
PlateMH == <<"M", "H", "1", "2", "A", "B", "1", "2", "3", "4">>
PlateShort == <<"X", "1">>
\* a request body without numberPlate
PlateMissing == <<>>
PlateUnknown == <<"U", "N", "K", "N", "O", "W", "N">>
NullPlate == <<"n", "u", "l", "l">>

\* plates a request can name
PlateInputs == {PlateDL, PlateDLlower, PlateMH}

----------------------------------------------------------------------------
(* State *)

VARIABLES
    now,                   \* the value Date.now() last returned, in milliseconds
    numbers,               \* Number collection: the numberPlate of every document
    payments,              \* Payment collection, in insertion order
    guests,                \* GuestNumber collection, in insertion order
    gateTriggerFlag,       \* index.js:792
    gateTriggerTimestamp,  \* index.js:793
    gateTriggerPlate,      \* index.js:794
    gateTriggerExpiry,     \* index.js:795
    handlers,              \* the request handlers in flight: position and locals
    lastResp,              \* the response most recently sent
    gateHist,              \* history: the last arming of the mailbox, polls since
    payHist                \* history: per payment record, its completing saves

gateVars == <<gateTriggerFlag, gateTriggerTimestamp, gateTriggerPlate, gateTriggerExpiry>>
dbVars == <<numbers, payments, guests>>
vars == <<now, numbers, payments, guests, gateTriggerFlag, gateTriggerTimestamp,
          gateTriggerPlate, gateTriggerExpiry, handlers, lastResp, gateHist, payHist>>

Idle == [kind |-> "idle"]
NoResp == [route |-> "none"]
NoGateHist == [armed |-> FALSE]

Init ==
    /\ now = 0
    /\ numbers = {}
    /\ payments = <<>>
    /\ guests = <<>>
    /\ gateTriggerFlag = FALSE
    /\ gateTriggerTimestamp = NullTime
    /\ gateTriggerPlate = NullPlate
    /\ gateTriggerExpiry = NullTime
    /\ handlers = [h \in 1..MaxHandlers |-> Idle]
    /\ lastResp = NoResp
    /\ gateHist = NoGateHist
    /\ payHist = <<>>

----------------------------------------------------------------------------
(* The clock *)

\* new Date() / Date.now() returns t: the clock never runs backwards, and time
\* that passes between two readings shows only in the later reading
ReadClock(t) == t >= now /\ now' = t

----------------------------------------------------------------------------
(* Whitelist CRUD: POST /numbers, DELETE /numbers/:id *)

\* the document is saved with the plate exactly as sent
AddNumber(numberPlate) ==
    /\ numberPlate \notin numbers
    /\ numbers' = numbers \cup {numberPlate}
    /\ lastResp' = [route |-> "add-number", code |-> 201]
    /\ UNCHANGED <<now, payments, guests, gateVars, handlers, gateHist, payHist>>

DeleteNumber(numberPlate) ==
    /\ numberPlate \in numbers
    /\ numbers' = numbers \ {numberPlate}
    /\ lastResp' = [route |-> "delete-number", code |-> 204]
    /\ UNCHANGED <<now, payments, guests, gateVars, handlers, gateHist, payHist>>

----------------------------------------------------------------------------
(* The gate mailbox *)

\* mutant: the expiry is stamped one second ahead instead of ten
ExpiryFromShort(t) == t + 1000

\* the expiry stamped when the mailbox is armed (index.js:108, 806)
ExpiryFrom(t) == t + GateTTL

\* mutant: the comparison of index.js:830 the wrong way round
ExpiredReversed(flag, expiry, t) == flag /\ expiry # NullTime /\ t < expiry

\* index.js:830: now > gateTriggerExpiry, on a set flag with an expiry
Expired(flag, expiry, t) == flag /\ expiry # NullTime /\ t > expiry

\* numberPlate || 'UNKNOWN' (index.js:805)
PlateOrUnknown(numberPlate) ==
    IF numberPlate = PlateMissing THEN PlateUnknown ELSE numberPlate

\* mutant: an unread signal is kept and the new one dropped (oldest wins)
ArmGateKeepsUnread(plate, t) ==
    IF gateTriggerFlag
    THEN UNCHANGED gateVars
    ELSE /\ gateTriggerFlag' = TRUE
         /\ gateTriggerTimestamp' = t
         /\ gateTriggerPlate' = plate
         /\ gateTriggerExpiry' = ExpiryFrom(t)

\* the four assignments that arm the mailbox (index.js:105-108, 803-806)
ArmGate(plate, t) ==
    /\ gateTriggerFlag' = TRUE
    /\ gateTriggerTimestamp' = t
    /\ gateTriggerPlate' = plate
    /\ gateTriggerExpiry' = ExpiryFrom(t)

\* mutant: the slot is read without being emptied
ClearGateKeepsSignal == UNCHANGED gateVars

\* the four assignments that empty the mailbox (index.js:832-835, 849-852)
ClearGate ==
    /\ gateTriggerFlag' = FALSE
    /\ gateTriggerTimestamp' = NullTime
    /\ gateTriggerPlate' = NullPlate
    /\ gateTriggerExpiry' = NullTime

\* history: the arming overwrites a signal no poll has read, set for another
\* plate
Overwrites(plate) == gateTriggerFlag /\ gateTriggerPlate # plate

\* POST /trigger-gate
TriggerGate(numberPlate, reason, t) ==
    /\ ReadClock(t)
    /\ ArmGate(PlateOrUnknown(numberPlate), t)
    /\ lastResp' = [route |-> "arm-gate", code |-> 200,
                    plate |-> PlateOrUnknown(numberPlate), expiresAt |-> ExpiryFrom(t)]
    /\ gateHist' = [armed |-> TRUE, by |-> "trigger-gate", at |-> t,
                    plate |-> numberPlate, reason |-> reason, polls |-> 0,
                    first |-> FALSE, hits |-> 0,
                    over |-> Overwrites(PlateOrUnknown(numberPlate))]
    /\ UNCHANGED <<dbVars, handlers, payHist>>

\* mutant: the whitelist is searched for the plate as sent
CheckHitAsSent(numberPlate) == numberPlate \in numbers

\* NumberModel.findOne({numberPlate: numberPlate.toUpperCase()}) found a
\* document (index.js:101-103)
CheckHit(numberPlate) == toUpperCase(numberPlate) \in numbers

\* GET /check/:numberPlate
CheckPlate(numberPlate, t) ==
    /\ IF CheckHit(numberPlate)
       THEN /\ ReadClock(t)
            /\ ArmGate(toUpperCase(numberPlate), t)
            /\ gateHist' = [armed |-> TRUE, by |-> "check", at |-> t,
                            plate |-> toUpperCase(numberPlate), reason |-> NullStr,
                            polls |-> 0, first |-> FALSE, hits |-> 0,
                            over |-> Overwrites(toUpperCase(numberPlate))]
       ELSE UNCHANGED <<now, gateVars, gateHist>>
    /\ lastResp' = [route |-> "check", code |-> 200, exists |-> CheckHit(numberPlate),
                    req |-> numberPlate]
    /\ UNCHANGED <<dbVars, handlers, payHist>>

\* GET /trigger-gate
PollGate(t) ==
    LET live == gateTriggerFlag /\ ~Expired(gateTriggerFlag, gateTriggerExpiry, t) IN
    /\ ReadClock(t)
    /\ IF gateTriggerFlag THEN ClearGate ELSE UNCHANGED gateVars
    /\ lastResp' = IF live
                   THEN [route |-> "poll-gate", code |-> 200, triggered |-> TRUE,
                         plate |-> gateTriggerPlate, timestamp |-> gateTriggerTimestamp,
                         expiresAt |-> gateTriggerExpiry, at |-> t]
                   ELSE [route |-> "poll-gate", code |-> 200, triggered |-> FALSE,
                         at |-> t]
    /\ gateHist' = IF gateHist.armed
                   THEN [gateHist EXCEPT !.polls = IF @ < 2 THEN @ + 1 ELSE @,
                                         !.first = IF gateHist.polls = 0 THEN live ELSE @,
                                         !.hits = IF live /\ @ < 2 THEN @ + 1 ELSE @]
                   ELSE gateHist
    /\ UNCHANGED <<dbVars, handlers, payHist>>

----------------------------------------------------------------------------
(* Documents and queries *)

\* findOne found nothing
NoDoc == 0

\* order.id and paymentLink.id as the gateway issues them
OrderId(n) == "order_" \o ToString(n)
LinkId(n) == "plink_" \o ToString(n)
\* an order id no record carries
OrderUnknown == "order_x"

\* payment ids the gateway reports
PayA == "pay_A"
PayB == "pay_B"

\* new PaymentModel({...}) (index.js:272-280) with the schema defaults
\* (payment.model.js:13-46)
NewPayment(plate, orderId, linkId, amount, t) ==
    [numberPlate |-> toUpperCase(plate),
     razorpayOrderId |-> orderId,
     razorpayPaymentId |-> NullStr,
     razorpayPaymentLinkId |-> linkId,
     amount |-> amount,
     status |-> "pending",
     createdAt |-> t,
     paidAt |-> NullTime]

\* PaymentModel.findOne(query): the first of the matching documents, or NoDoc
FindFirst(matching) ==
    IF matching # {}
    THEN CHOOSE i \in matching : \A j \in matching : i <= j
    ELSE NoDoc

FindByOrderId(orderId) ==
    FindFirst({i \in 1..Len(payments) : payments[i].razorpayOrderId = orderId})
FindByLinkId(linkId) ==
    FindFirst({i \in 1..Len(payments) :
                   payments[i].razorpayPaymentLinkId = linkId})
FindByPaymentId(paymentId) ==
    FindFirst({i \in 1..Len(payments) :
                   payments[i].razorpayPaymentId = paymentId})
FindPendingByPlate(plate) ==
    FindFirst({i \in 1..Len(payments) :
                   payments[i].numberPlate = plate /\ payments[i].status = "pending"})

\* GuestNumberModel.findOne({numberPlate, razorpayOrderId}) found a document
GuestExists(plate, orderId) ==
    \E i \in 1..Len(guests) :
        guests[i].numberPlate = plate /\ guests[i].razorpayOrderId = orderId

\* a || b on strings where JavaScript null, undefined and '' are falsy
OrElse(a, b) == IF a # NullStr THEN a ELSE b

\* new GuestNumberModel({...}) (index.js:333-341)
NewGuest(payment, t) ==
    [numberPlate |-> toUpperCase(payment.numberPlate),
     razorpayOrderId |-> payment.razorpayOrderId,
     razorpayPaymentId |-> OrElse(payment.razorpayPaymentId, NullStr),
     amount |-> payment.amount,
     transactionId |-> OrElse(payment.razorpayPaymentId, payment.razorpayOrderId),
     paidAt |-> IF payment.paidAt # NullTime THEN payment.paidAt ELSE t,
     timestamp |-> t]

\* document.save() of a loaded document writes the paths assigned since it was
\* loaded and leaves every other path of the stored document as it is
SaveLoaded(stored, local, dirty) ==
    [f \in DOMAIN stored |-> IF f \in dirty THEN local[f] ELSE stored[f]]

\* mutant: get-status without its early return on a completed record
StatusDoneNever(payment) == FALSE

\* payment.status === 'completed' (index.js:367): get-status returns at once
StatusDone(payment) == payment.status = "completed"

\* mutant: a loaded record is completed again whatever its status
NotCompletedAlways(payment) == TRUE

\* payment.status !== 'completed' (index.js:637, 701, 743): the webhook and
\* manual-verify complete the loaded record
NotCompleted(payment) == payment.status # "completed"

\* mutant: the gateway's word for a settled order stored as the record's status
MarkCompletedPaid(payment, paymentId, t) ==
    [payment EXCEPT !.status = "paid",
                    !.razorpayPaymentId = IF paymentId # NullStr THEN paymentId ELSE @,
                    !.paidAt = t]

\* the assignments every completing path makes before payment.save()
\* (index.js:393-395, 418-419, 446-448, 639-646, 702-704, 744-746);
\* paymentId is NullStr where the path assigns no razorpayPaymentId
MarkCompleted(payment, paymentId, t) ==
    [payment EXCEPT !.status = "completed",
                    !.razorpayPaymentId = IF paymentId # NullStr THEN paymentId ELSE @,
                    !.paidAt = t]

\* mutant: paidAt is not assigned, so save() does not write it
CompletedDirtyNoPaidAt(payment, paymentId) ==
    {"status"} \cup
    (IF paymentId # NullStr /\ paymentId # payment.razorpayPaymentId
     THEN {"razorpayPaymentId"} ELSE {})

\* the paths those assignments modify
CompletedDirty(payment, paymentId) ==
    {"status", "paidAt"} \cup
    (IF paymentId # NullStr /\ paymentId # payment.razorpayPaymentId
     THEN {"razorpayPaymentId"} ELSE {})

----------------------------------------------------------------------------
(* History *)

NoPayHist == [saves |-> 0]

\* a handler saved record i as completed
Saved(i) == [payHist EXCEPT ![i].saves = @ + 1]

IdleSlot(h) == handlers[h].kind = "idle"

\* the handler finishes: its response is sent and its slot is free
Respond(h, resp) ==
    /\ handlers' = [handlers EXCEPT ![h] = Idle]
    /\ lastResp' = resp

----------------------------------------------------------------------------
(* POST /payment/create *)

\* orders the gateway has issued an id for: those saved and those about to be
OrdersIssued ==
    Len(payments) +
    Cardinality({h \in DOMAIN handlers :
                    handlers[h].kind = "create" /\ handlers[h].pc = "insert"})

\* !numberPlate || numberPlate.length !== 10 (index.js:134)
InvalidPlate(numberPlate) == numberPlate = PlateMissing \/ Len(numberPlate) # PlateLength

\* validation and the lookup of a pending payment for the plate (index.js:132-165)
CreateStart(h, numberPlate, amount) ==
    /\ IdleSlot(h)
    /\ IF InvalidPlate(numberPlate)
       THEN /\ Respond(h, [route |-> "create", code |-> 400])
       ELSE LET existing == FindPendingByPlate(toUpperCase(numberPlate)) IN
            IF existing # NoDoc
            THEN Respond(h, [route |-> "create", code |-> 200,
                             orderId |-> payments[existing].razorpayOrderId])
            ELSE /\ handlers' = [handlers EXCEPT ![h] =
                        [kind |-> "create", pc |-> "gateway",
                         numberPlate |-> numberPlate, amount |-> amount]]
                 /\ UNCHANGED lastResp
    /\ UNCHANGED <<now, dbVars, gateVars, gateHist, payHist>>

\* razorpay.orders.create, razorpay.paymentLink.create and the construction of
\* the document (index.js:186-280); orderOk and linkOk are the gateway's
\* answers, and the gateway issues at most cap orders
CreateOrder(cap, h, orderOk, linkOk, t) ==
    /\ handlers[h].kind = "create"
    /\ handlers[h].pc = "gateway"
    /\ IF ~orderOk
       THEN /\ Respond(h, [route |-> "create", code |-> 500])
            /\ UNCHANGED now
       ELSE /\ OrdersIssued < cap
            /\ ReadClock(t)
            /\ handlers' = [handlers EXCEPT ![h] =
                   [kind |-> "create", pc |-> "insert",
                    payment |-> NewPayment(handlers[h].numberPlate,
                                           OrderId(OrdersIssued + 1),
                                           IF linkOk THEN LinkId(OrdersIssued + 1)
                                                     ELSE NullStr,
                                           handlers[h].amount, t)]]
            /\ UNCHANGED lastResp
    /\ UNCHANGED <<dbVars, gateVars, gateHist, payHist>>

CreateGateway(h, orderOk, linkOk, t) == CreateOrder(MaxOrders, h, orderOk, linkOk, t)

\* payment.save() of the new document and the 201 response (index.js:282-302)
CreateSave(h) ==
    /\ handlers[h].kind = "create"
    /\ handlers[h].pc = "insert"
    /\ payments' = Append(payments, handlers[h].payment)
    /\ payHist' = Append(payHist, NoPayHist)
    /\ Respond(h, [route |-> "create", code |-> 201,
                   orderId |-> handlers[h].payment.razorpayOrderId])
    /\ UNCHANGED <<now, numbers, guests, gateVars, gateHist>>

----------------------------------------------------------------------------
(* payment.save() and saveGuestNumberPlateAfterPayment, shared by the        *)
(* completing paths of get-status, the webhook and manual-verify             *)

\* what saveGuestNumberPlateAfterPayment returns to its caller: true after the
\* insert (index.js:344) and true when the row already exists (index.js:347)
LedgerReturn(existed) == TRUE

\* the response a handler sends once its completing path has run
\* (index.js:403-407, 425-429, 454-458, 665, 710-715); saved is the value the
\* ledger write returned to the handler, which logs it (index.js:401, 708, 750)
CompletedResp(h, existed) ==
    [route |-> handlers[h].kind, code |-> 200, status |-> "completed",
     outcome |-> "won", idx |-> handlers[h].idx, req |-> handlers[h].req,
     saved |-> LedgerReturn(existed)]

\* mutant: the completing path arms the mailbox for the plate of its record
GateOnCompletionArmed(h) == ArmGate(handlers[h].payment.numberPlate, now)

\* what the completing paths do to the gate mailbox: index.js:396-400,
\* 420-422, 449-451, 647-651, 705-707 and 747-749 go from payment.save()
\* straight to saveGuestNumberPlateAfterPayment and assign no gateTrigger*
GateOnCompletion(h) == UNCHANGED gateVars

\* mutant: the handler goes on to the ledger write without saving its record
PaymentSaveLost(h) ==
    /\ handlers[h].kind \in {"status", "webhook", "verify"}
    /\ handlers[h].pc = "save"
    /\ handlers' = [handlers EXCEPT ![h].pc = "guestFind"]
    /\ UNCHANGED <<now, dbVars, gateVars, lastResp, gateHist, payHist>>

\* await payment.save() of the loaded document (index.js:396, 420, 449, 647, 705, 747)
PaymentSave(h) ==
    /\ handlers[h].kind \in {"status", "webhook", "verify"}
    /\ handlers[h].pc = "save"
    /\ payments' = [payments EXCEPT ![handlers[h].idx] =
                       SaveLoaded(@, handlers[h].payment, handlers[h].dirty)]
    /\ payHist' = Saved(handlers[h].idx)
    /\ handlers' = [handlers EXCEPT ![h].pc = "guestFind"]
    /\ GateOnCompletion(h)
    /\ UNCHANGED <<now, numbers, guests, lastResp, gateHist>>

\* await GuestNumberModel.findOne(...) and the branch on it (index.js:327-341, 345-347)
GuestFind(h, t) ==
    /\ handlers[h].kind \in {"status", "webhook", "verify"}
    /\ handlers[h].pc = "guestFind"
    /\ IF GuestExists(toUpperCase(handlers[h].payment.numberPlate),
                      handlers[h].payment.razorpayOrderId)
       THEN /\ Respond(h, CompletedResp(h, TRUE))
            /\ UNCHANGED now
       ELSE /\ ReadClock(t)
            /\ handlers' = [handlers EXCEPT ![h].pc = "guestSave",
                                            ![h].guest = NewGuest(handlers[h].payment, t)]
            /\ UNCHANGED lastResp
    /\ UNCHANGED <<dbVars, gateVars, gateHist, payHist>>

\* await guestNumber.save() and the response (index.js:342-344)
GuestSave(h) ==
    /\ handlers[h].kind \in {"status", "webhook", "verify"}
    /\ handlers[h].pc = "guestSave"
    /\ guests' = Append(guests, handlers[h].guest)
    /\ Respond(h, CompletedResp(h, FALSE))
    /\ UNCHANGED <<now, numbers, payments, gateVars, gateHist, payHist>>

\* a query or the save of the ledger write throws: the catch of
\* saveGuestNumberPlateAfterPayment logs the error and returns false
\* (index.js:349-352), and the handler goes on to its response
GuestFail(h) ==
    /\ handlers[h].kind \in {"status", "webhook", "verify"}
    /\ handlers[h].pc \in {"guestFind", "guestSave"}
    /\ Respond(h, [CompletedResp(h, FALSE) EXCEPT !.saved = FALSE])
    /\ UNCHANGED <<now, dbVars, gateVars, gateHist, payHist>>

\* GET /guests: the rows of the ledger (index.js:62-69); the sort by timestamp
\* is left out, the rows are reported as a set
ListGuests ==
    /\ lastResp' = [route |-> "guests", code |-> 200,
                    rows |-> {guests[k] : k \in 1..Len(guests)}]
    /\ UNCHANGED <<now, dbVars, gateVars, handlers, gateHist, payHist>>

\* the handler has loaded record i and assigned the completing values to it
Completing(h, kind, i, paymentId, dirtyExtra, local, req, t) ==
    /\ ReadClock(t)
    /\ handlers' = [handlers EXCEPT ![h] =
        [kind |-> kind, pc |-> "save", idx |-> i, req |-> req,
         payment |-> MarkCompleted(local, paymentId, t),
         dirty |-> CompletedDirty(local, paymentId) \cup dirtyExtra,
         guest |-> NoDoc]]

----------------------------------------------------------------------------
(* The gateway's answers *)

\* a gateway call that threw
Failed == [ok |-> FALSE]

\* payments as orders.fetchPayments and paymentLink.fetch list them
PaymentLists ==
    {<<>>,
     <<[id |-> PayA, status |-> "captured"]>>,
     <<[id |-> PayA, status |-> "authorized"]>>,
     <<[id |-> PayA, status |-> "failed"], [id |-> PayB, status |-> "captured"]>>}

\* razorpay.orders.fetch
OrderAnswers == {Failed} \cup [ok : {TRUE}, status : {"created", "paid"}]
\* razorpay.orders.fetchPayments
OrderPaymentsAnswers == {Failed} \cup [ok : {TRUE}, items : PaymentLists]
\* razorpay.paymentLink.fetch
LinkAnswers ==
    {Failed} \cup
    {[ok |-> TRUE, status |-> "created", payments |-> <<>>],
     [ok |-> TRUE, status |-> "paid", payments |-> <<>>],
     [ok |-> TRUE, status |-> "paid",
      payments |-> <<[id |-> PayB, status |-> "captured"]>>]}
\* razorpay.payments.all
AllAnswers ==
    {Failed} \cup
    {[ok |-> TRUE,
      items |-> <<[id |-> PayB, amount |-> DefaultAmount * 100,
                   status |-> "captured", created_at |-> 0]>>]}

GatewayAnswers ==
    [order : OrderAnswers, payments : OrderPaymentsAnswers, link : LinkAnswers,
     all : AllAnswers]

\* status === 'captured' || status === 'authorized' (index.js:391, 445, 700, 742)
Secured(p) == p.status = "captured" \/ p.status = "authorized"

\* what a reconciliation decides: nothing, an error, or completion with the
\* payment id it assigns (NullStr where it assigns none)
Nothing == [kind |-> "nothing"]
Threw == [kind |-> "threw"]
Paid(paymentId, by) == [kind |-> "paid", paymentId |-> paymentId, by |-> by]

----------------------------------------------------------------------------
(* GET /payment/status/:orderId *)

\* Method 4 (index.js:467-501): the callback of find reads the identifier
\* amount, which this handler never declares, so the first item it is called
\* on throws a ReferenceError that the catch at index.js:498 swallows; on an
\* empty list find calls nothing and returns undefined
StatusSearch(payment, g) ==
    IF payment.razorpayPaymentId # NullStr THEN Nothing
    ELSE IF ~g.all.ok THEN Nothing
    ELSE IF g.all.items = <<>> THEN Nothing
    ELSE Nothing

\* Method 3 (index.js:433-464)
StatusLink(payment, g) ==
    IF payment.razorpayPaymentLinkId = NullStr THEN Nothing
    ELSE IF ~g.link.ok THEN Nothing
    ELSE IF /\ g.link.status = "paid"
            /\ Len(g.link.payments) > 0
            /\ Secured(g.link.payments[1])
         THEN Paid(g.link.payments[1].id, "link")
         ELSE Nothing

\* mutant: any payment listed for the order counts as paid
StatusReconcileAnyPayment(payment, g) ==
    IF ~g.order.ok \/ ~g.payments.ok THEN Nothing
    ELSE IF Len(g.payments.items) > 0
         THEN Paid(g.payments.items[1].id, "order-payments")
    ELSE IF g.order.status = "paid" THEN Paid(NullStr, "order-status")
    ELSE IF StatusLink(payment, g).kind = "paid" THEN StatusLink(payment, g)
    ELSE StatusSearch(payment, g)

\* mutant: the payment link is consulted before the order
StatusReconcileLinkFirst(payment, g) ==
    IF ~g.order.ok \/ ~g.payments.ok THEN Nothing
    ELSE IF StatusLink(payment, g).kind = "paid" THEN StatusLink(payment, g)
    ELSE IF Len(g.payments.items) > 0 /\ Secured(g.payments.items[1])
         THEN Paid(g.payments.items[1].id, "order-payments")
    ELSE IF g.order.status = "paid" THEN Paid(NullStr, "order-status")
    ELSE StatusSearch(payment, g)

\* mutant: the poll waits for the order to be settled before it trusts a
\* captured payment
StatusReconcileSettledOnly(payment, g) ==
    IF ~g.order.ok \/ ~g.payments.ok THEN Nothing
    ELSE IF /\ g.order.status = "paid"
            /\ Len(g.payments.items) > 0 /\ Secured(g.payments.items[1])
         THEN Paid(g.payments.items[1].id, "order-payments")
    ELSE Nothing

\* the try block of index.js:376-507 on the loaded document
StatusReconcile(payment, g) ==
    IF ~g.order.ok \/ ~g.payments.ok THEN Nothing
    ELSE IF Len(g.payments.items) > 0 /\ Secured(g.payments.items[1])
         THEN Paid(g.payments.items[1].id, "order-payments")
    ELSE IF g.order.status = "paid" THEN Paid(NullStr, "order-status")
    ELSE IF StatusLink(payment, g).kind = "paid" THEN StatusLink(payment, g)
    ELSE StatusSearch(payment, g)

\* a poll or a manual-verify call as its handler sees it before any gateway
\* call: req.params.orderId
Asked(orderId) == [orderId |-> orderId]

\* a poll as its handler sees it once the gateway has answered: req.params.orderId
\* and the answers of the gateway calls (recorded with the request so that
\* responses can be told apart)
Polled(orderId, g) == [orderId |-> orderId, answers |-> g]

\* findOne by order id, 404, and the early return on a completed record
\* (index.js:358-373)
StatusStart(h, orderId) ==
    LET i == FindByOrderId(orderId) IN
    /\ IdleSlot(h)
    /\ IF i = NoDoc
       THEN /\ Respond(h, [route |-> "status", code |-> 404, outcome |-> "notfound",
                           idx |-> NoDoc, req |-> Asked(orderId)])
            /\ UNCHANGED payHist
       ELSE IF StatusDone(payments[i])
       THEN /\ Respond(h, [route |-> "status", code |-> 200, status |-> "completed",
                           outcome |-> "already", idx |-> i, req |-> Asked(orderId)])
            /\ UNCHANGED payHist
       ELSE /\ handlers' = [handlers EXCEPT ![h] =
                   [kind |-> "status", pc |-> "gateway", idx |-> i,
                    payment |-> payments[i], req |-> Asked(orderId)]]
            /\ UNCHANGED payHist
            /\ UNCHANGED lastResp
    /\ UNCHANGED <<now, dbVars, gateVars, gateHist>>

\* mutant: a failed orders.fetch is tried again
StatusCallsRetry(payment, g) ==
    IF ~g.order.ok THEN <<"orders.fetch", "orders.fetch">>
    ELSE <<"orders.fetch", "orders.fetchPayments">>

\* the gateway calls the try block of index.js:376-501 makes on answers g, in
\* order: a throwing orders.fetch or fetchPayments ends them (catch at 502),
\* a completing method returns, paymentLink.fetch needs a link id (433) and
\* payments.all a record without payment id (467)
StatusCalls(payment, g) ==
    LET first == <<"orders.fetch", "orders.fetchPayments">>
        link == IF payment.razorpayPaymentLinkId # NullStr
                THEN <<"paymentLink.fetch">> ELSE <<>>
        all == IF payment.razorpayPaymentId = NullStr
               THEN <<"payments.all">> ELSE <<>> IN
    IF ~g.order.ok THEN <<"orders.fetch">>
    ELSE IF ~g.payments.ok THEN first
    ELSE IF Len(g.payments.items) > 0 /\ Secured(g.payments.items[1]) THEN first
    ELSE IF g.order.status = "paid" THEN first
    ELSE IF StatusLink(payment, g).kind = "paid" THEN first \o link
    ELSE first \o link \o all

\* a poll as its handler has run it: the request, the gateway's answers and
\* the calls that were made
PolledBy(payment, orderId, g) ==
    [orderId |-> orderId, answers |-> g, calls |-> StatusCalls(payment, g)]

\* the gateway calls and the decision taken on their answers (index.js:375-513)
StatusGateway(h, g, t) ==
    LET payment == handlers[h].payment
        r == StatusReconcile(payment, g) IN
    /\ handlers[h].kind = "status"
    /\ handlers[h].pc = "gateway"
    /\ IF r.kind = "paid"
       THEN /\ Completing(h, "status", handlers[h].idx, r.paymentId, {}, payment,
                          PolledBy(payment, handlers[h].req.orderId, g), t)
            /\ UNCHANGED lastResp
       ELSE /\ Respond(h, [route |-> "status", code |-> 200, status |-> payment.status,
                           outcome |-> "unchanged", idx |-> handlers[h].idx,
                           req |-> PolledBy(payment, handlers[h].req.orderId, g)])
            /\ UNCHANGED now
    /\ UNCHANGED <<dbVars, gateVars, gateHist, payHist>>

----------------------------------------------------------------------------
(* POST /payment/verify/:orderId *)

\* Method 1 of manual-verify (index.js:692-729)
VerifyLink(payment, g) == StatusLink(payment, g)

\* the try block of index.js:690-783 on the loaded document
VerifyReconcile(payment, g) ==
    IF VerifyLink(payment, g).kind = "paid" THEN VerifyLink(payment, g)
    ELSE IF ~g.order.ok \/ ~g.payments.ok THEN Threw
    ELSE IF /\ Len(g.payments.items) > 0
            /\ (Secured(g.payments.items[1]) \/ g.order.status = "paid")
         THEN Paid(g.payments.items[1].id, "order-payments")
    ELSE Nothing

\* findOne by order id and 404 (index.js:676-684)
VerifyStart(h, orderId) ==
    LET i == FindByOrderId(orderId) IN
    /\ IdleSlot(h)
    /\ IF i = NoDoc
       THEN /\ Respond(h, [route |-> "verify", code |-> 404, outcome |-> "notfound",
                           idx |-> NoDoc, req |-> Asked(orderId)])
            /\ UNCHANGED payHist
       ELSE /\ handlers' = [handlers EXCEPT ![h] =
                   [kind |-> "verify", pc |-> "gateway", idx |-> i,
                    payment |-> payments[i], req |-> Asked(orderId)]]
            /\ UNCHANGED payHist
            /\ UNCHANGED lastResp
    /\ UNCHANGED <<now, dbVars, gateVars, gateHist>>

\* the gateway calls and the decision taken on their answers (index.js:689-783)
VerifyGateway(h, g, t) ==
    LET payment == handlers[h].payment
        r == VerifyReconcile(payment, g) IN
    /\ handlers[h].kind = "verify"
    /\ handlers[h].pc = "gateway"
    /\ IF r.kind = "paid" /\ NotCompleted(payment)
       THEN /\ Completing(h, "verify", handlers[h].idx, r.paymentId, {}, payment,
                          Polled(handlers[h].req.orderId, g), t)
            /\ UNCHANGED lastResp
       ELSE /\ UNCHANGED now
            /\ IF r.kind = "paid"
               THEN Respond(h, [route |-> "verify", code |-> 200, status |-> "completed",
                                outcome |-> "already", idx |-> handlers[h].idx,
                                req |-> Polled(handlers[h].req.orderId, g)])
               ELSE IF r.kind = "threw"
               THEN Respond(h, [route |-> "verify", code |-> 500, outcome |-> "error",
                                idx |-> handlers[h].idx,
                                req |-> Polled(handlers[h].req.orderId, g)])
               ELSE Respond(h, [route |-> "verify", code |-> 200,
                                status |-> payment.status, outcome |-> "unchanged",
                                idx |-> handlers[h].idx,
                                req |-> Polled(handlers[h].req.orderId, g)])
    /\ UNCHANGED <<dbVars, gateVars, gateHist, payHist>>

----------------------------------------------------------------------------
(* GET /payment/plate/:numberPlate *)

\* the completed records of a plate (the query of index.js:525-528)
CompletedOf(plate) ==
    {i \in 1..Len(payments) :
        payments[i].numberPlate = plate /\ payments[i].status = "completed"}

\* mutant: the sort is dropped and any completed record of the plate is returned
LatestPaidUnsorted(matching) == matching

\* .sort({paidAt: -1}) ahead of findOne (index.js:528): the documents that can
\* come first, those no other matching document was paid after
LatestPaid(matching) ==
    {i \in matching : \A j \in matching : payments[j].paidAt <= payments[i].paidAt}

\* the query and the response (index.js:521-545)
GetByPlate(numberPlate) ==
    LET matching == CompletedOf(toUpperCase(numberPlate)) IN
    /\ IF matching = {}
       THEN lastResp' = [route |-> "by-plate", code |-> 200, paid |-> FALSE,
                         idx |-> NoDoc, req |-> numberPlate]
       ELSE \E i \in LatestPaid(matching) :
                lastResp' = [route |-> "by-plate", code |-> 200, paid |-> TRUE,
                             idx |-> i, payment |-> payments[i], req |-> numberPlate]
    /\ UNCHANGED <<now, dbVars, gateVars, handlers, gateHist, payHist>>

----------------------------------------------------------------------------
(* POST /payment/webhook *)

\* a property the payload does not have
Absent == [absent |-> TRUE]
Has(x) == x # Absent

\* an entity of the payload: its order_id, id and payment_link_id, NullStr
\* where the entity lacks the property
Entity(orderId, id, linkId) ==
    [order_id |-> orderId, id |-> id, payment_link_id |-> linkId]

\* event.payload: payment (with or without .entity), payment_link.entity with
\* its id and the id of payments[0], order.entity with its id, and order_id
Payload(pay, payEntity, linkEntity, orderEntity, orderId) ==
    [payment |-> pay, payment_entity |-> payEntity, payment_link_entity |-> linkEntity,
     order_entity |-> orderEntity, order_id |-> orderId]

EmptyPayload == Payload(Absent, Absent, Absent, Absent, NullStr)

\* the payload shapes a request body can have, for the ids it can name
PayloadsFor(orderId, linkId) ==
    {EmptyPayload,
     [EmptyPayload EXCEPT !.payment_entity = Entity(orderId, PayA, NullStr)],
     [EmptyPayload EXCEPT !.payment_entity = Entity(NullStr, PayA, linkId)],
     [EmptyPayload EXCEPT !.payment_entity = Entity(NullStr, PayA, NullStr),
                          !.order_entity = Entity(NullStr, orderId, NullStr)],
     [EmptyPayload EXCEPT !.payment = Entity(orderId, PayB, NullStr)],
     [EmptyPayload EXCEPT !.payment_link_entity = Entity(NullStr, linkId, PayB)],
     [EmptyPayload EXCEPT !.order_entity = Entity(NullStr, orderId, NullStr)],
     [EmptyPayload EXCEPT !.order_id = orderId]}

WebhookEvents == {"payment.captured", "order.paid", "payment_link.paid", "payment.failed"}

\* request bodies: every event with every shape, naming the first order and
\* its payment link, or an order no record carries
WebhookBodies ==
    [event : WebhookEvents,
     payload : PayloadsFor(OrderId(1), LinkId(1)) \cup PayloadsFor(OrderUnknown, NullStr)]

\* crypto.createHmac('sha256', secret).update(body).digest('hex')
Hmac(secret, body) == <<"hmac-sha256", secret, body>>

\* process.env.RAZORPAY_WEBHOOK_SECRET || '' and the x-razorpay-signature header
NoSecret == ""
NoSignature == <<>>
\* the secret configured and the signature sent, as requests can pair them
WebhookAuth(body) ==
    {[secret |-> NoSecret, signature |-> NoSignature],
     [secret |-> "whsec", signature |-> NoSignature],
     [secret |-> "whsec", signature |-> Hmac("whsec", body)],
     [secret |-> "whsec", signature |-> Hmac("forged", body)]}

\* mutant: no signature is ever rejected
BadSignatureNever(secret, signature, body) == FALSE

\* index.js:561-576: the request is rejected
BadSignature(secret, signature, body) ==
    /\ secret # NoSecret
    /\ signature # NoSignature
    /\ signature # Hmac(secret, body)

\* how the x-razorpay-signature header compares with the HMAC of the body
SignatureClass(secret, signature, body) ==
    IF signature = NoSignature THEN "missing"
    ELSE IF signature = Hmac(secret, body) THEN "match"
    ELSE "mismatch"

\* the request as the handler sees it: req.body, the secret configured, the
\* signature header against the body, and the ids extraction yields (recorded
\* with the request so that responses can be told apart)
Delivery(secret, signature, body, ids) ==
    [event |-> body.event, payload |-> body.payload,
     secret |-> secret # NoSecret,
     signature |-> SignatureClass(secret, signature, body),
     ids |-> ids]

\* mutant: every event kind is handled as a completion
CompletionEventAny(event) == TRUE

\* mutant: payment.captured left out of the events handled
CompletionEventNoCapture(event) == event = "order.paid" \/ event = "payment_link.paid"

\* index.js:585
CompletionEvent(event) ==
    event = "payment.captured" \/ event = "order.paid" \/ event = "payment_link.paid"

\* mutant: the order id is taken from whichever shape carries one
ExtractIdsAnyShape(payload) ==
    [orderId |-> IF Has(payload.payment_entity)
                    /\ payload.payment_entity.order_id # NullStr
                 THEN payload.payment_entity.order_id
                 ELSE IF Has(payload.payment) /\ payload.payment.order_id # NullStr
                 THEN payload.payment.order_id
                 ELSE IF Has(payload.order_entity)
                 THEN payload.order_entity.id
                 ELSE payload.order_id,
     paymentId |-> IF Has(payload.payment_entity) THEN payload.payment_entity.id
                   ELSE IF Has(payload.payment) THEN payload.payment.id
                   ELSE IF Has(payload.payment_link_entity)
                   THEN payload.payment_link_entity.payment_link_id
                   ELSE NullStr,
     paymentLinkId |-> IF Has(payload.payment_entity)
                       THEN payload.payment_entity.payment_link_id
                       ELSE IF Has(payload.payment)
                       THEN payload.payment.payment_link_id
                       ELSE IF Has(payload.payment_link_entity)
                       THEN payload.payment_link_entity.id
                       ELSE NullStr]

\* index.js:586-613: orderId, paymentId and paymentLinkId from the first
\* shape the payload has
ExtractIds(payload) ==
    IF Has(payload.payment_entity)
    THEN [orderId |-> payload.payment_entity.order_id,
          paymentId |-> payload.payment_entity.id,
          paymentLinkId |-> payload.payment_entity.payment_link_id]
    ELSE IF Has(payload.payment)
    THEN [orderId |-> payload.payment.order_id,
          paymentId |-> payload.payment.id,
          paymentLinkId |-> payload.payment.payment_link_id]
    ELSE IF Has(payload.payment_link_entity)
    THEN [orderId |-> NullStr,
          paymentId |-> payload.payment_link_entity.payment_link_id,
          paymentLinkId |-> payload.payment_link_entity.id]
    ELSE IF Has(payload.order_entity)
    THEN [orderId |-> payload.order_entity.id, paymentId |-> NullStr,
          paymentLinkId |-> NullStr]
    ELSE IF payload.order_id # NullStr
    THEN [orderId |-> payload.order_id, paymentId |-> NullStr, paymentLinkId |-> NullStr]
    ELSE [orderId |-> NullStr, paymentId |-> NullStr, paymentLinkId |-> NullStr]

\* mutant: the payment link id is looked up before the order id
LookupsLinkFirst(ids) ==
    (IF ids.paymentLinkId # NullStr THEN <<"link">> ELSE <<>>) \o
    (IF ids.orderId # NullStr THEN <<"order">> ELSE <<>>) \o
    (IF ids.paymentId # NullStr THEN <<"payment">> ELSE <<>>)

\* the lookups still to run, in the order of index.js:615-632
Lookups(ids) ==
    (IF ids.orderId # NullStr THEN <<"order">> ELSE <<>>) \o
    (IF ids.paymentLinkId # NullStr THEN <<"link">> ELSE <<>>) \o
    (IF ids.paymentId # NullStr THEN <<"payment">> ELSE <<>>)

\* one PaymentModel.findOne of index.js:619, 625, 631
Lookup(key, ids) ==
    CASE key = "order" -> FindByOrderId(ids.orderId)
      [] key = "link" -> FindByLinkId(ids.paymentLinkId)
      [] key = "payment" -> FindByPaymentId(ids.paymentId)

\* mutant: an event that matches no record is answered as an error
AcknowledgedIfFound(outcome, i, body) ==
    [route |-> "webhook", code |-> IF outcome = "notfound" THEN 404 ELSE 200,
     outcome |-> outcome, idx |-> i, req |-> body]

\* the response of index.js:665
Acknowledged(outcome, i, body) ==
    [route |-> "webhook", code |-> 200, outcome |-> outcome, idx |-> i, req |-> body]

\* index.js:634-660 once the lookups are over: record i was resolved, or none
WebhookApply(h, i, ids, body, t) ==
    IF i = NoDoc
    THEN /\ Respond(h, Acknowledged("notfound", NoDoc, body))
         /\ UNCHANGED <<now, payHist>>
    ELSE IF ~NotCompleted(payments[i])
    THEN /\ Respond(h, Acknowledged("already", i, body))
         /\ UNCHANGED <<now, payHist>>
    ELSE LET setLink == ids.paymentLinkId # NullStr
                        /\ payments[i].razorpayPaymentLinkId = NullStr
             local == IF setLink
                      THEN [payments[i] EXCEPT !.razorpayPaymentLinkId = ids.paymentLinkId]
                      ELSE payments[i] IN
         /\ Completing(h, "webhook", i, ids.paymentId,
                       IF setLink THEN {"razorpayPaymentLinkId"} ELSE {}, local, body, t)
         /\ UNCHANGED payHist
         /\ UNCHANGED lastResp

\* one lookup has returned: apply its record, or go on to the next lookup
WebhookLookup(h, ids, todo, body, t) ==
    IF todo = <<>>
    THEN WebhookApply(h, NoDoc, ids, body, t)
    ELSE LET i == Lookup(Head(todo), ids) IN
         IF i # NoDoc \/ Tail(todo) = <<>>
         THEN WebhookApply(h, i, ids, body, t)
         ELSE /\ handlers' = [handlers EXCEPT ![h] =
                     [kind |-> "webhook", pc |-> "lookup", ids |-> ids,
                      todo |-> Tail(todo), req |-> body]]
              /\ UNCHANGED <<now, lastResp, payHist>>

\* signature check, event filter, extraction and the first lookup
\* (index.js:555-620)
WebhookStart(h, secret, signature, body, t) ==
    LET ids == ExtractIds(body.payload)
        req == Delivery(secret, signature, body, ids) IN
    /\ IdleSlot(h)
    /\ IF BadSignature(secret, signature, body)
       THEN /\ Respond(h, [route |-> "webhook", code |-> 400, outcome |-> "rejected",
                           idx |-> NoDoc, req |-> req])
            /\ UNCHANGED <<now, payHist>>
       ELSE IF ~CompletionEvent(body.event)
       THEN /\ Respond(h, Acknowledged("ignored", NoDoc, req))
            /\ UNCHANGED <<now, payHist>>
       ELSE WebhookLookup(h, ids, Lookups(ids), req, t)
    /\ UNCHANGED <<dbVars, gateVars, gateHist>>

\* a later lookup returns (index.js:623-632)
WebhookNext(h, t) ==
    /\ handlers[h].kind = "webhook"
    /\ handlers[h].pc = "lookup"
    /\ WebhookLookup(h, handlers[h].ids, handlers[h].todo, handlers[h].req, t)
    /\ UNCHANGED <<dbVars, gateVars, gateHist>>

----------------------------------------------------------------------------
(* Specifications *)

Handlers == DOMAIN handlers
OrderIdInputs == {OrderId(n) : n \in 1..MaxOrders} \cup {OrderUnknown}

\* requests and gateway answers of the payment core under concurrency: one
\* set of answers for each thing a reconciliation can decide (the gateway
\* unreachable, nothing paid, paid by the order's payments, by the order's
\* status, by the payment link)
Answers(orderAnswer, paymentsAnswer, linkAnswer) ==
    [order |-> orderAnswer, payments |-> paymentsAnswer, link |-> linkAnswer,
     all |-> Failed]
NoPayments == [ok |-> TRUE, items |-> <<>>]
LinkPaid ==
    [ok |-> TRUE, status |-> "paid", payments |-> <<[id |-> PayB, status |-> "captured"]>>]
RaceAnswers ==
    {Answers(Failed, Failed, Failed),
     Answers([ok |-> TRUE, status |-> "created"], NoPayments, Failed),
     Answers([ok |-> TRUE, status |-> "created"],
             [ok |-> TRUE, items |-> <<[id |-> PayA, status |-> "captured"]>>], Failed),
     Answers([ok |-> TRUE, status |-> "paid"], NoPayments, Failed),
     Answers([ok |-> TRUE, status |-> "created"], NoPayments, LinkPaid)}
RaceBodies ==
    {[event |-> "payment.captured",
      payload |-> [EmptyPayload EXCEPT !.payment_entity =
                                           Entity(OrderId(1), PayA, NullStr)]],
     [event |-> "payment_link.paid",
      payload |-> [EmptyPayload EXCEPT !.payment_link_entity =
                                           Entity(NullStr, LinkId(1), PayB)]],
     [event |-> "payment.failed",
      payload |-> [EmptyPayload EXCEPT !.payment_entity =
                                           Entity(OrderId(1), PayA, NullStr)]]}

NextPay ==
    \/ \E h \in Handlers, p \in {PlateDLlower, PlateShort} :
           CreateStart(h, p, DefaultAmount)
    \/ \E h \in Handlers, orderOk \in BOOLEAN, linkOk \in BOOLEAN, t \in PayInstants :
           CreateGateway(h, orderOk, linkOk, t)
    \/ \E h \in Handlers : CreateSave(h)
    \/ \E h \in Handlers, o \in OrderIdInputs : StatusStart(h, o)
    \/ \E h \in Handlers, g \in RaceAnswers, t \in PayInstants : StatusGateway(h, g, t)
    \/ \E h \in Handlers, o \in OrderIdInputs : VerifyStart(h, o)
    \/ \E h \in Handlers, g \in RaceAnswers, t \in PayInstants : VerifyGateway(h, g, t)
    \/ \E h \in Handlers, body \in RaceBodies, t \in PayInstants :
           \E signature \in {NoSignature, Hmac("forged", body)} :
               WebhookStart(h, "whsec", signature, body, t)
    \/ \E h \in Handlers, t \in PayInstants : WebhookNext(h, t)
    \/ \E h \in Handlers : PaymentSave(h)
    \/ \E h \in Handlers, t \in PayInstants : GuestFind(h, t)
    \/ \E h \in Handlers : GuestSave(h)
    \/ ListGuests

\* plates the whitelist is given, one of them in lower case
ListedPlates == {PlateDL, PlateDLlower}

NextGate ==
    \/ \E p \in ListedPlates : AddNumber(p)
    \/ \E p \in ListedPlates : DeleteNumber(p)
    \/ \E p \in PlateInputs \cup {PlateMissing}, r \in {"payment", NullStr},
          t \in GateInstants : TriggerGate(p, r, t)
    \/ \E p \in PlateInputs, t \in GateInstants : CheckPlate(p, t)
    \/ \E t \in GateInstants : PollGate(t)

\* request bodies of the sequential runs: each documented shape naming the
\* first order, one naming an order no record carries, one ignored event
SeqBodies ==
    RaceBodies \cup
    {[event |-> "payment.captured",
      payload |-> [EmptyPayload EXCEPT !.payment_entity =
                                           Entity(OrderUnknown, PayA, NullStr)]],
     [event |-> "payment.captured",
      payload |-> [EmptyPayload EXCEPT !.payment = Entity(OrderId(1), PayB, NullStr)]],
     [event |-> "order.paid",
      payload |-> [EmptyPayload EXCEPT !.order_entity =
                                           Entity(NullStr, OrderId(1), NullStr)]]}

\* the secret and signature of the sequential runs: a correctly signed and a
\* forged request
SeqAuth(body) ==
    {[secret |-> "whsec", signature |-> Hmac("whsec", body)],
     [secret |-> "whsec", signature |-> Hmac("forged", body)]}

\* the payment routes and the mailbox, one request at a time
NextSeq ==
    \/ \E p \in {PlateDL, PlateDLlower, PlateShort, PlateMissing} :
           CreateStart(1, p, DefaultAmount)
    \/ \E orderOk \in BOOLEAN, linkOk \in BOOLEAN, t \in PayInstants :
           CreateGateway(1, orderOk, linkOk, t)
    \/ CreateSave(1)
    \/ \E o \in OrderIdInputs : StatusStart(1, o)
    \/ \E g \in RaceAnswers, t \in PayInstants : StatusGateway(1, g, t)
    \/ \E o \in OrderIdInputs : VerifyStart(1, o)
    \/ \E g \in RaceAnswers, t \in PayInstants : VerifyGateway(1, g, t)
    \/ \E body \in SeqBodies, t \in PayInstants :
           \E auth \in SeqAuth(body) :
               WebhookStart(1, auth.secret, auth.signature, body, t)
    \/ \E t \in PayInstants : WebhookNext(1, t)
    \/ PaymentSave(1)
    \/ \E t \in PayInstants : GuestFind(1, t)
    \/ GuestSave(1)
    \/ \E p \in {PlateMH, PlateDL}, t \in PayInstants : TriggerGate(p, "payment", t)
    \/ \E t \in PayInstants : PollGate(t)

\* the payment routes and the mailbox, requests served one after the other
Spec == Init /\ [][NextSeq]_vars

\* the gate mailbox and the whitelist
SpecGate == Init /\ [][NextGate]_vars

\* the payment core: every payment route, MaxHandlers requests in flight
SpecPay == Init /\ [][NextPay]_vars

\* create-payment, get-status and manual-verify, one request at a time, with
\* every combination of gateway answers
NextPoll ==
    \/ \E p \in {PlateDL, PlateShort} : CreateStart(1, p, DefaultAmount)
    \/ \E orderOk \in BOOLEAN, linkOk \in BOOLEAN : CreateGateway(1, orderOk, linkOk, 0)
    \/ CreateSave(1)
    \/ \E o \in OrderIdInputs : StatusStart(1, o)
    \/ \E g \in GatewayAnswers : StatusGateway(1, g, 0)
    \/ \E o \in OrderIdInputs : VerifyStart(1, o)
    \/ \E g \in GatewayAnswers : VerifyGateway(1, g, 0)
    \/ PaymentSave(1)
    \/ GuestFind(1, 0)
    \/ GuestSave(1)

\* create-payment, get-status and manual-verify, requests served one after the
\* other
SpecPoll == Init /\ [][NextPoll]_vars

\* a payload whose only shape is a payment entity
PaymentEntity(orderId, id, linkId) ==
    [EmptyPayload EXCEPT !.payment_entity = Entity(orderId, id, linkId)]

\* payloads of the runs of the webhook alone: every shape, ids of the first and
\* of the second record mixed in one payload, two shapes in one payload, and ids
\* no record carries
HookPayloads ==
    {EmptyPayload,
     PaymentEntity(OrderId(1), PayA, NullStr),
     PaymentEntity(OrderId(1), PayA, LinkId(2)),
     PaymentEntity(OrderUnknown, PayA, LinkId(2)),
     PaymentEntity(OrderUnknown, PayB, NullStr),
     [EmptyPayload EXCEPT !.payment_entity = Entity(NullStr, PayB, NullStr),
                          !.order_entity = Entity(NullStr, OrderId(1), NullStr)],
     [EmptyPayload EXCEPT !.payment = Entity(OrderId(2), PayB, NullStr)],
     [EmptyPayload EXCEPT !.payment_link_entity = Entity(NullStr, LinkId(1), PayB)],
     [EmptyPayload EXCEPT !.order_entity = Entity(NullStr, OrderId(2), NullStr)],
     [EmptyPayload EXCEPT !.order_id = OrderId(1)]}

\* request bodies of the runs of the webhook alone
HookBodies ==
    [event : {"payment.captured"}, payload : HookPayloads] \cup
    [event : {"payment.failed"},
     payload : {PaymentEntity(OrderId(1), PayA, NullStr),
                PaymentEntity(OrderId(1), PayA, LinkId(2))}] \cup
    {[event |-> "order.paid",
      payload |-> [EmptyPayload EXCEPT !.order_entity =
                                           Entity(NullStr, OrderId(2), NullStr)]],
     [event |-> "payment_link.paid",
      payload |-> [EmptyPayload EXCEPT !.payment_link_entity =
                                           Entity(NullStr, LinkId(1), PayB)]]}

\* create-payment and the webhook, one request at a time, up to MaxHookOrders
\* records
NextHook ==
    \/ \E p \in {PlateDL, PlateMH} : CreateStart(1, p, DefaultAmount)
    \/ \E linkOk \in BOOLEAN : CreateOrder(MaxHookOrders, 1, TRUE, linkOk, 0)
    \/ CreateSave(1)
    \/ \E body \in HookBodies :
           \E auth \in WebhookAuth(body) :
               WebhookStart(1, auth.secret, auth.signature, body, 0)
    \/ WebhookNext(1, 0)
    \/ PaymentSave(1)
    \/ GuestFind(1, 0)
    \/ GuestSave(1)
    \/ TriggerGate(PlateMH, "payment", 0)

\* create-payment and the webhook, requests served one after the other
SpecHook == Init /\ [][NextHook]_vars

\* webhook deliveries naming each of the orders
PlateBodies ==
    {[event |-> "payment.captured",
      payload |-> PaymentEntity(OrderId(n), PayA, NullStr)] : n \in 1..MaxHookOrders}

\* create-payment for one plate, the webhook and get-by-plate, with requests
\* in flight together and up to MaxHookOrders records
NextPlate ==
    \/ \E h \in Handlers : CreateStart(h, PlateDLlower, DefaultAmount)
    \/ \E h \in Handlers, t \in PayInstants :
           CreateOrder(MaxHookOrders, h, TRUE, FALSE, t)
    \/ \E h \in Handlers : CreateSave(h)
    \/ \E h \in Handlers, body \in PlateBodies, t \in PayInstants :
           WebhookStart(h, NoSecret, NoSignature, body, t)
    \/ \E h \in Handlers, t \in PayInstants : WebhookNext(h, t)
    \/ \E h \in Handlers : PaymentSave(h)
    \/ \E h \in Handlers, t \in PayInstants : GuestFind(h, t)
    \/ \E h \in Handlers : GuestSave(h)
    \/ \E p \in {PlateDLlower, PlateMH} : GetByPlate(p)

SpecPlate == Init /\ [][NextPlate]_vars

\* the payment routes, one request at a time, with a guest collection whose
\* queries and saves can fail
NextStore ==
    \/ CreateStart(1, PlateDL, DefaultAmount)
    \/ \E linkOk \in BOOLEAN : CreateGateway(1, TRUE, linkOk, 0)
    \/ CreateSave(1)
    \/ \E o \in OrderIdInputs : StatusStart(1, o)
    \/ \E g \in RaceAnswers : StatusGateway(1, g, 0)
    \/ \E o \in OrderIdInputs : VerifyStart(1, o)
    \/ \E g \in RaceAnswers : VerifyGateway(1, g, 0)
    \/ \E body \in RaceBodies : WebhookStart(1, NoSecret, NoSignature, body, 0)
    \/ WebhookNext(1, 0)
    \/ PaymentSave(1)
    \/ GuestFind(1, 0)
    \/ GuestSave(1)
    \/ GuestFail(1)

SpecStore == Init /\ [][NextStore]_vars

\* the client's poller on slot 1 (src/index.js:56-65 polls the order's status
\* every few seconds), create-payment and manual-verify on slot 2
NextLive ==
    \/ StatusStart(1, OrderId(1))
    \/ \E g \in RaceAnswers : StatusGateway(1, g, 0)
    \/ PaymentSave(1)
    \/ GuestFind(1, 0)
    \/ GuestSave(1)
    \/ CreateStart(2, PlateDL, DefaultAmount)
    \/ \E orderOk \in BOOLEAN, linkOk \in BOOLEAN : CreateGateway(2, orderOk, linkOk, 0)
    \/ CreateSave(2)
    \/ \E o \in OrderIdInputs : VerifyStart(2, o)
    \/ \E g \in RaceAnswers : VerifyGateway(2, g, 0)
    \/ PaymentSave(2)
    \/ GuestFind(2, 0)
    \/ GuestSave(2)

\* where each handler slot stands
pcs == [h \in DOMAIN handlers |->
           IF handlers[h].kind = "idle" THEN "idle" ELSE handlers[h].pc]

\* the poller keeps polling, and the event loop runs every continuation of a
\* poll whose awaited call has returned
SpecLive ==
    /\ Init
    /\ [][NextLive]_vars
    /\ WF_pcs(StatusStart(1, OrderId(1)))
    /\ WF_pcs(\E g \in RaceAnswers : StatusGateway(1, g, 0))
    /\ WF_pcs(PaymentSave(1))
    /\ WF_pcs(GuestFind(1, 0))
    /\ WF_pcs(GuestSave(1))

----------------------------------------------------------------------------
(* Properties *)

Records == 1..Len(payments)

\* the guest-ledger rows of record i: those with its plate and its order id
RowsOf(i) ==
    {k \in 1..Len(guests) :
        /\ guests[k].numberPlate = payments[i].numberPlate
        /\ guests[k].razorpayOrderId = payments[i].razorpayOrderId}

\* no request handler is in flight
Quiescent == \A h \in Handlers : IdleSlot(h)

\* handler h works on record i from a copy it loaded before the record was
\* completed, or has already assigned the completing values to its copy
Stale(h, i) ==
    /\ handlers[h].kind \in {"status", "webhook", "verify"}
    /\ handlers[h].pc \in {"gateway", "save", "guestFind", "guestSave"}
    /\ handlers[h].idx = i
    /\ (handlers[h].pc = "gateway" => handlers[h].payment.status # "completed")

\* C1: across interleaved completion attempts on one order at most one attempt
\* saves the record as completed; every other attempt writes nothing to it.
C1_SingleCompletion == \A i \in Records : payHist[i].saves <= 1

\* C2: the guest ledger holds at most one row per (plate, order id), and
\* exactly one once the order is completed and every handler has finished.
C2_OneLedgerRow ==
    \A i \in Records :
        /\ Cardinality(RowsOf(i)) <= 1
        /\ (payments[i].status = "completed" /\ Quiescent)
               => Cardinality(RowsOf(i)) = 1

\* C3: paid-at is written exactly once: once paidAt of a record is non-null no
\* step changes it.
C3_PaidAtWrittenOnce ==
    [][\A i \in Records :
           payments[i].paidAt # NullTime => payments'[i].paidAt = payments[i].paidAt]_vars

\* C4: idempotence after completion: once a record is completed and no handler
\* holds a copy of it loaded while pending (in particular when no handler is in
\* flight), no step of any later get-status poll, manual-verify call or webhook
\* changes its paid-at or its guest-ledger rows, and this stays so.
C4_IdempotentAfterCompletion ==
    [][\A i \in Records :
           (payments[i].status = "completed" /\ \A h \in Handlers : ~Stale(h, i))
               => /\ payments'[i].paidAt = payments[i].paidAt
                  /\ {guests'[k] : k \in RowsOf(i)'} = {guests[k] : k \in RowsOf(i)}
                  /\ Cardinality(RowsOf(i)') = Cardinality(RowsOf(i))
                  /\ \A h \in Handlers : ~Stale(h, i)']_vars

\* C4 witness: a poll or a manual-verify call found the record completed, the
\* record has its paid-at and its single ledger row, and nothing is in flight.
C4_Witness ==
    /\ Quiescent
    /\ lastResp.route \in {"status", "verify"}
    /\ lastResp.outcome = "already"
    /\ payments[lastResp.idx].paidAt # NullTime
    /\ Cardinality(RowsOf(lastResp.idx)) = 1

\* C5: the status of a payment record only moves pending -> completed or
\* pending -> failed, and is one of pending, completed and failed.
C5_StatusMoves ==
    [][\A i \in Records :
           /\ payments'[i].status \in {"pending", "completed", "failed"}
           /\ payments'[i].status # payments[i].status
                  => /\ payments[i].status = "pending"
                     /\ payments'[i].status \in {"completed", "failed"}]_vars

\* C5 witness: a record that was saved as completed twice is completed.
C5_Witness ==
    \E i \in Records : payments[i].status = "completed" /\ payHist[i].saves >= 2

\* C6: in every stored payment record paidAt is non-null exactly when status
\* is completed.
C6_PaidAtIffCompleted ==
    \A i \in Records : (payments[i].paidAt # NullTime) <=> (payments[i].status = "completed")

\* C6 witness: a completed record with its paid-at, next to a request in flight.
C6_Witness ==
    \E i \in Records :
        /\ payments[i].status = "completed"
        /\ payments[i].paidAt # NullTime
        /\ ~Quiescent

CapturedFor(body, i) ==
    /\ body.event = "payment.captured"
    /\ Has(body.payload.payment_entity)
    /\ body.payload.payment_entity.order_id = payments[i].razorpayOrderId

\* C8: once a payment.captured webhook carrying the order id of a record has
\* been acknowledged, the record is completed and the guest ledger holds
\* exactly one row for its (plate, order id).
C8_CapturedWebhookCompletes ==
    \A i \in Records :
        (lastResp.route = "webhook" /\ lastResp.code = 200 /\ CapturedFor(lastResp.req, i))
            => /\ payments[i].status = "completed"
               /\ Cardinality(RowsOf(i)) = 1

\* C8 witness: the acknowledged webhook is the one that completed the record.
C8_Witness ==
    \E i \in Records :
        /\ lastResp.route = "webhook"
        /\ lastResp.outcome = "won"
        /\ CapturedFor(lastResp.req, i)
        /\ payments[i].razorpayPaymentId = PayA
        /\ Cardinality(RowsOf(i)) = 1

\* the response just sent is that of a poll-gate made after the mailbox was armed
PolledSinceArmed == lastResp.route = "poll-gate" /\ gateHist.armed /\ gateHist.polls >= 1

\* C9: mailbox one-shot: the first poll-gate after an arming, made no later
\* than 10 s after it, returns triggered=true with the plate of the arming; a
\* further poll-gate with no arming in between returns triggered=false.
C9_OneShot ==
    PolledSinceArmed
        => /\ (gateHist.polls = 1 /\ lastResp.at <= gateHist.at + 10000)
                  => /\ lastResp.triggered
                     /\ gateHist.plate # PlateMissing => lastResp.plate = gateHist.plate
           /\ gateHist.polls >= 2 => ~lastResp.triggered

\* C9 witness: the first poll delivered the signal and the next one did not.
C9_Witness ==
    /\ PolledSinceArmed
    /\ gateHist.polls = 2
    /\ gateHist.first
    /\ ~lastResp.triggered
    /\ lastResp.at <= gateHist.at + 10000

\* the four mailbox variables are reset
SlotCleared ==
    /\ ~gateTriggerFlag
    /\ gateTriggerPlate = NullPlate
    /\ gateTriggerTimestamp = NullTime
    /\ gateTriggerExpiry = NullTime

\* C10: mailbox TTL: a poll-gate made more than 10 s after the last arming
\* returns triggered=false and leaves the slot cleared.
C10_TTL ==
    (PolledSinceArmed /\ lastResp.at > gateHist.at + 10000)
        => ~lastResp.triggered /\ SlotCleared

\* C10 witness: the first poll after an arming came 1 ms past the expiry and
\* found nothing.
C10_Witness ==
    /\ PolledSinceArmed
    /\ gateHist.polls = 1
    /\ lastResp.at = gateHist.at + 10001
    /\ ~lastResp.triggered

\* C11: at-most-once delivery: under any interleaving of arming and poll-gate
\* requests each armed signal is returned as triggered=true by at most one
\* poll-gate, and a poll-gate returns triggered=true only for a signal that was
\* armed; so the triggered=true responses never outnumber the armings.
C11_AtMostOnce ==
    /\ gateHist.armed => gateHist.hits <= 1
    /\ (lastResp.route = "poll-gate" /\ lastResp.triggered)
           => gateHist.armed /\ gateHist.hits = 1

\* C11 witness: a whitelist hit armed the mailbox, one poll-gate got the signal
\* and a second poll-gate inside the TTL got nothing.
C11_Witness ==
    /\ PolledSinceArmed
    /\ gateHist.by = "check"
    /\ gateHist.hits = 1
    /\ gateHist.polls = 2
    /\ ~lastResp.triggered
    /\ lastResp.at <= gateHist.at + 10000

\* C12: mailbox newest-wins: a poll-gate that returns a signal returns the
\* plate and the expiry of the most recent arming, never those of an arming it
\* overwrote; the first poll-gate after the most recent arming, made no later
\* than its expiry, does return it.
C12_NewestWins ==
    PolledSinceArmed =>
        /\ lastResp.triggered
               => /\ lastResp.plate = PlateOrUnknown(gateHist.plate)
                  /\ lastResp.expiresAt = gateHist.at + 10000
        /\ (gateHist.polls = 1 /\ lastResp.at <= gateHist.at + 10000)
               => lastResp.triggered

\* C12 witness: an arming overwrote an unread signal set for another plate and
\* the next poll-gate returned the plate of the later arming.
C12_Witness ==
    /\ PolledSinceArmed
    /\ gateHist.over
    /\ gateHist.polls = 1
    /\ lastResp.triggered
    /\ lastResp.plate = PlateOrUnknown(gateHist.plate)

\* a webhook request that came without signature header / with a signature that
\* is not the HMAC of its body, while a secret is configured
Unsigned(req) == req.secret /\ req.signature = "missing"
Forged(req) == req.secret /\ req.signature = "mismatch"

\* this step sends the response of a webhook request
HookResponds == lastResp' # lastResp /\ lastResp'.route = "webhook"

\* this step leaves every payment record, ledger row and the mailbox as it was
NoStateChange == UNCHANGED <<payments, guests, gateVars>>

\* C13: with a secret configured, a webhook request without signature header
\* is rejected with an authentication failure and no handler goes on to work
\* on it.
C13_MissingSignatureRejected ==
    /\ (lastResp.route = "webhook" /\ Unsigned(lastResp.req))
           => lastResp.outcome = "rejected"
    /\ \A h \in Handlers :
           handlers[h].kind = "webhook" => ~Unsigned(handlers[h].req)

\* C14: with a secret configured, a webhook request whose signature is not the
\* HMAC of its body is answered with an authentication failure in a step that
\* changes no payment record, ledger row or mailbox variable, and no handler
\* goes on to work on it.
C14_MismatchRejected ==
    [][/\ (HookResponds /\ Forged(lastResp'.req))
              => lastResp'.code = 400 /\ NoStateChange
       /\ \A h \in Handlers :
              handlers'[h].kind = "webhook" => ~Forged(handlers'[h].req)]_vars

\* C14 witness: a forged payment.captured webhook naming the order of a pending
\* record was rejected and the record is still pending, without paid-at.
C14_Witness ==
    /\ lastResp.route = "webhook"
    /\ lastResp.code = 400
    /\ Forged(lastResp.req)
    /\ lastResp.req.event = "payment.captured"
    /\ \E i \in Records :
           /\ payments[i].razorpayOrderId = lastResp.req.ids.orderId
           /\ payments[i].status = "pending"
           /\ payments[i].paidAt = NullTime

\* C15: a webhook that passes the signature check and whose event kind is none
\* of payment.captured, order.paid, payment_link.paid is answered 200 in a step
\* that changes no payment record, ledger row or mailbox variable, whatever ids
\* its payload carries, and no handler goes on to work on it.
C15_OtherEventsIgnored ==
    [][/\ (/\ HookResponds
           /\ ~Forged(lastResp'.req)
           /\ lastResp'.req.event \notin {"payment.captured", "order.paid",
                                          "payment_link.paid"})
              => lastResp'.code = 200 /\ NoStateChange
       /\ \A h \in Handlers :
              handlers'[h].kind = "webhook"
                  => handlers'[h].req.event \in {"payment.captured", "order.paid",
                                                 "payment_link.paid"}]_vars

\* C15 witness: a payment.failed webhook naming the order of a pending record
\* and the payment link of another was acknowledged while the mailbox was
\* armed; the record is still pending and the mailbox still armed.
C15_Witness ==
    /\ lastResp.route = "webhook"
    /\ lastResp.code = 200
    /\ lastResp.req.event = "payment.failed"
    /\ lastResp.req.ids.paymentLinkId = LinkId(2)
    /\ gateTriggerFlag
    /\ \E i \in Records :
           /\ payments[i].razorpayOrderId = lastResp.req.ids.orderId
           /\ payments[i].status = "pending"

\* the shapes of a payload in the order of the normalization: 1 payment
\* entity, 2 flat payment, 3 payment-link entity, 4 order entity, 5 bare
\* order id
HasShape(payload, k) ==
    \/ k = 1 /\ Has(payload.payment_entity)
    \/ k = 2 /\ Has(payload.payment)
    \/ k = 3 /\ Has(payload.payment_link_entity)
    \/ k = 4 /\ Has(payload.order_entity)
    \/ k = 5 /\ payload.order_id # NullStr

\* the (orderId, paymentId, paymentLinkId) triple shape k alone yields
TripleOf(payload, k) ==
    IF k = 1 THEN <<payload.payment_entity.order_id, payload.payment_entity.id,
                    payload.payment_entity.payment_link_id>>
    ELSE IF k = 2 THEN <<payload.payment.order_id, payload.payment.id,
                         payload.payment.payment_link_id>>
    ELSE IF k = 3 THEN <<NullStr, payload.payment_link_entity.payment_link_id,
                         payload.payment_link_entity.id>>
    ELSE IF k = 4 THEN <<payload.order_entity.id, NullStr, NullStr>>
    ELSE <<payload.order_id, NullStr, NullStr>>

\* the triple the normalization produced for request req is that of the first
\* shape its payload has, or all null when it has none
FirstShapeOnly(req) ==
    LET got == <<req.ids.orderId, req.ids.paymentId, req.ids.paymentLinkId>> IN
    /\ \A k \in 1..5 :
           (HasShape(req.payload, k) /\ \A j \in 1..(k - 1) : ~HasShape(req.payload, j))
               => got = TripleOf(req.payload, k)
    /\ (\A k \in 1..5 : ~HasShape(req.payload, k)) => got = <<NullStr, NullStr, NullStr>>

\* the payload has a payment entity without order_id and an order entity
PaymentThenOrderEntity(payload) ==
    /\ Has(payload.payment_entity)
    /\ payload.payment_entity.order_id = NullStr
    /\ Has(payload.order_entity)

\* C16: webhook normalization takes the whole triple from the first shape the
\* payload has, in the order payment entity, flat payment, payment-link entity,
\* order entity, bare order id; a payload with a payment entity lacking
\* order_id plus an order entity yields no orderId, so it never completes the
\* record its order entity names.
C16_FirstShapeOnly ==
    /\ lastResp.route = "webhook" => FirstShapeOnly(lastResp.req)
    /\ \A h \in Handlers : handlers[h].kind = "webhook" => FirstShapeOnly(handlers[h].req)
    /\ (lastResp.route = "webhook" /\ PaymentThenOrderEntity(lastResp.req.payload))
           => lastResp.req.ids.orderId = NullStr /\ lastResp.outcome # "won"
    /\ \A h \in Handlers :
           (handlers[h].kind = "webhook" /\ PaymentThenOrderEntity(handlers[h].req.payload))
               => handlers[h].pc = "lookup"

\* C16 witness: a payment.captured webhook with a payment entity lacking
\* order_id and an order entity naming the order of a pending record resolved
\* no record, and the record is still pending.
C16_Witness ==
    /\ lastResp.route = "webhook"
    /\ lastResp.req.event = "payment.captured"
    /\ PaymentThenOrderEntity(lastResp.req.payload)
    /\ lastResp.outcome = "notfound"
    /\ \E i \in Records :
           /\ payments[i].razorpayOrderId = lastResp.req.payload.order_entity.id
           /\ payments[i].status = "pending"

\* the records a key of the triple resolves, none when the key is absent
ByOrderId(ids) ==
    {i \in Records : ids.orderId # NullStr /\ payments[i].razorpayOrderId = ids.orderId}
ByLinkId(ids) ==
    {i \in Records : ids.paymentLinkId # NullStr
                        /\ payments[i].razorpayPaymentLinkId = ids.paymentLinkId}
ByPaymentId(ids) ==
    {i \in Records : ids.paymentId # NullStr
                        /\ payments[i].razorpayPaymentId = ids.paymentId}

\* record i is one the first key that resolves anything resolves
FirstKeyResolves(ids, i) ==
    IF ByOrderId(ids) # {} THEN i \in ByOrderId(ids)
    ELSE IF ByLinkId(ids) # {} THEN i \in ByLinkId(ids)
    ELSE i \in ByPaymentId(ids)

\* no key of the triple resolves a record
ResolvesNothing(ids) == ByOrderId(ids) \cup ByLinkId(ids) \cup ByPaymentId(ids) = {}

\* in this step handler h takes up a record to complete it
TakesUp(h) ==
    /\ handlers'[h].kind = "webhook"
    /\ handlers'[h].pc = "save"
    /\ ~(handlers[h].kind = "webhook" /\ handlers[h].pc = "save")

\* C17: the webhook resolves its record by orderId, then paymentLinkId, then
\* paymentId, using the first key that resolves a record: the record a webhook
\* takes up or reports on is one resolved by the first such key (when orderId
\* resolves R1 and paymentLinkId would resolve R2, it is R1), and the only
\* record a step of the webhook writes is the one it took up.
C17_LookupOrder ==
    [][/\ \A h \in Handlers :
              TakesUp(h) => FirstKeyResolves(handlers'[h].req.ids, handlers'[h].idx)
       /\ (HookResponds /\ lastResp'.outcome = "already")
              => FirstKeyResolves(lastResp'.req.ids, lastResp'.idx)
       /\ \A i \in Records :
              payments'[i] # payments[i]
                  => \E h \in Handlers : /\ handlers[h].kind = "webhook"
                                          /\ handlers[h].pc = "save"
                                          /\ handlers[h].idx = i]_vars

\* C17 witness: a webhook whose orderId names the first record and whose
\* paymentLinkId is that of the second completed the first record; the second
\* is still pending.
C17_Witness ==
    /\ lastResp.route = "webhook"
    /\ lastResp.outcome = "won"
    /\ Len(payments) = 2
    /\ lastResp.req.ids.orderId = payments[1].razorpayOrderId
    /\ lastResp.req.ids.paymentLinkId = payments[2].razorpayPaymentLinkId
    /\ lastResp.idx = 1
    /\ payments[1].status = "completed"
    /\ payments[2].status = "pending"

\* C18: a completion-kind webhook that passes the signature check and whose
\* ids resolve no payment record is answered 200 in a step that changes no
\* payment record, ledger row or mailbox variable, and no handler takes up a
\* record for it.
C18_UnmatchedAcknowledged ==
    [][/\ (/\ HookResponds
           /\ ~Forged(lastResp'.req)
           /\ lastResp'.req.event \in {"payment.captured", "order.paid",
                                       "payment_link.paid"}
           /\ ResolvesNothing(lastResp'.req.ids))
              => lastResp'.code = 200 /\ NoStateChange
       /\ \A h \in Handlers :
              TakesUp(h) => ~ResolvesNothing(handlers'[h].req.ids)]_vars

\* C18 witness: a payment.captured webhook naming an order no record carries
\* was acknowledged while a record was pending and the mailbox armed.
C18_Witness ==
    /\ lastResp.route = "webhook"
    /\ lastResp.code = 200
    /\ lastResp.outcome = "notfound"
    /\ lastResp.req.event = "payment.captured"
    /\ lastResp.req.ids.orderId = OrderUnknown
    /\ ResolvesNothing(lastResp.req.ids)
    /\ gateTriggerFlag
    /\ \E i \in Records : payments[i].status = "pending"

\* what each strategy finds in the gateway's answers g, taken on its own:
\* 1 the first of the order's payments is captured or authorized
OrderPaymentsPositive(g) ==
    /\ g.payments.ok
    /\ Len(g.payments.items) > 0
    /\ g.payments.items[1].status \in {"captured", "authorized"}
\* 2 the order is paid
OrderStatusPositive(g) == g.order.ok /\ g.order.status = "paid"
\* 3 the record has a payment link, which is paid and lists a captured or
\* authorized payment first
PaymentLinkPositive(linkId, g) ==
    /\ linkId # NullStr
    /\ g.link.ok
    /\ g.link.status = "paid"
    /\ Len(g.link.payments) > 0
    /\ g.link.payments[1].status \in {"captured", "authorized"}

\* no gateway call of strategies 1 to 3 failed
NoGatewayFailure(g) == g.order.ok /\ g.payments.ok /\ g.link.ok

\* a record with link id linkId is given payment id id on answers g by the
\* first positive strategy among 1 to 3 (strategy 2 gives none)
FirstPositive(linkId, id, g) ==
    IF OrderPaymentsPositive(g) THEN id = g.payments.items[1].id
    ELSE IF OrderStatusPositive(g) THEN id = NullStr
    ELSE PaymentLinkPositive(linkId, g) /\ id = g.link.payments[1].id

\* handler h is a get-status poll on its completing path
StatusCompleting(h) ==
    /\ handlers[h].kind = "status"
    /\ handlers[h].pc \in {"save", "guestFind", "guestSave"}

\* the response just sent is that of a get-status poll that found the record
\* pending and left it so / that completed it
StatusPending == lastResp.route = "status" /\ lastResp.outcome = "unchanged"
StatusWon == lastResp.route = "status" /\ lastResp.outcome = "won"

C20_StrategiesIndependent ==
    StatusPending
        => /\ ~OrderPaymentsPositive(lastResp.req.answers)
           /\ ~OrderStatusPositive(lastResp.req.answers)
           /\ ~PaymentLinkPositive(payments[lastResp.idx].razorpayPaymentLinkId,
                                   lastResp.req.answers)

\* 4 the account-wide list has a captured payment of the record's amount,
\* created later than the record's creation minus 60 s
HeuristicPositive(record, g) ==
    /\ g.all.ok
    /\ \E k \in 1..Len(g.all.items) :
           /\ g.all.items[k].amount = record.amount * 100
           /\ g.all.items[k].status = "captured"
           /\ g.all.items[k].created_at * 1000 > record.createdAt - 60000

\* some strategy is positive for record on the answers g
SomePositive(record, g) ==
    \/ OrderPaymentsPositive(g)
    \/ OrderStatusPositive(g)
    \/ PaymentLinkPositive(record.razorpayPaymentLinkId, g)
    \/ HeuristicPositive(record, g)

\* in this step the get-status poll of handler h gets its gateway answers and
\* answers the caller / takes up its record to complete it
PollAnswers(h) ==
    /\ handlers[h].kind = "status"
    /\ handlers[h].pc = "gateway"
    /\ handlers'[h].kind = "idle"
PollTakesUp(h) ==
    /\ handlers[h].kind = "status"
    /\ handlers[h].pc = "gateway"
    /\ handlers'[h].kind = "status"
    /\ handlers'[h].pc = "save"

\* C21: a get-status poll of a pending record on which no strategy is positive
\* (every gateway call failing included) does not take up the record: it
\* answers 200 with the stored status pending, in a step that changes no payment
\* record, ledger row or mailbox variable.
C21_NothingPositiveNoChange ==
    [][\A h \in Handlers :
           /\ PollTakesUp(h) => SomePositive(handlers[h].payment, handlers'[h].req.answers)
           /\ PollAnswers(h)
                  => /\ lastResp'.route = "status"
                     /\ lastResp'.code = 200
                     /\ lastResp'.status = "pending"
                     /\ payments'[lastResp'.idx].status = "pending"
                     /\ NoStateChange]_vars

\* C21 witness: every gateway call of a poll failed and the poll answered
\* pending for a record that is pending.
C21_Witness ==
    /\ StatusPending
    /\ lastResp.code = 200
    /\ ~lastResp.req.answers.order.ok
    /\ ~lastResp.req.answers.payments.ok
    /\ ~lastResp.req.answers.link.ok
    /\ ~lastResp.req.answers.all.ok
    /\ payments[lastResp.idx].status = "pending"
    /\ payments[lastResp.idx].razorpayPaymentLinkId # NullStr

\* C22: heuristic strategy: a get-status poll on which strategies 1 to 3 are
\* negative while the account-wide list holds a captured payment of the
\* record's amount created after the record's creation minus 60 s does not
\* leave the record pending.
C22_HeuristicCompletes ==
    StatusPending
        => ~(/\ ~OrderPaymentsPositive(lastResp.req.answers)
             /\ ~OrderStatusPositive(lastResp.req.answers)
             /\ ~PaymentLinkPositive(payments[lastResp.idx].razorpayPaymentLinkId,
                                     lastResp.req.answers)
             /\ NoGatewayFailure(lastResp.req.answers)
             /\ HeuristicPositive(payments[lastResp.idx], lastResp.req.answers))

\* handler h is a manual-verify call on its completing path
VerifyCompleting(h) ==
    /\ handlers[h].kind = "verify"
    /\ handlers[h].pc \in {"save", "guestFind", "guestSave"}

\* the response just sent is that of a manual-verify call that did not
\* complete its record, which is pending
VerifyLeftPending ==
    /\ lastResp.route = "verify"
    /\ lastResp.outcome \in {"unchanged", "error"}
    /\ payments[lastResp.idx].status = "pending"

\* C23: manual-verify decides as a get-status poll does: on the same gateway
\* answers and the same pending record, manual-verify completes the record
\* exactly when the poll's reconciliation does, and with the same payment id.
C23_VerifySameAsStatus ==
    /\ \A h \in Handlers :
           VerifyCompleting(h)
               => LET r == StatusReconcile(handlers[h].payment, handlers[h].req.answers) IN
                  /\ r.kind = "paid"
                  /\ r.paymentId = handlers[h].payment.razorpayPaymentId
    /\ VerifyLeftPending
           => StatusReconcile(payments[lastResp.idx], lastResp.req.answers).kind # "paid"

\* one of the gateway calls of a manual-verify call failed
VerifyCallFailed(g) == ~g.link.ok \/ ~g.order.ok \/ ~g.payments.ok

\* C24: a gateway failure during manual-verify of an existing record is
\* recovered locally: the call is answered with a success code and the stored
\* status, never with an error, and a record left pending is unchanged.
C24_VerifyFailureRecovered ==
    (/\ lastResp.route = "verify"
     /\ lastResp.idx # NoDoc
     /\ VerifyCallFailed(lastResp.req.answers))
        => /\ lastResp.code = 200
           /\ lastResp.outcome # "error"
           /\ lastResp.status \in {"pending", "completed"}

\* handler h answers from the ledger write that found its row already there
LedgerFound(h) ==
    /\ handlers[h].kind \in {"status", "webhook", "verify"}
    /\ handlers[h].pc = "guestFind"
    /\ handlers'[h].kind = "idle"

\* handler h answers from the ledger write that inserted its row
LedgerInserted(h) ==
    /\ handlers[h].kind \in {"status", "webhook", "verify"}
    /\ handlers[h].pc = "guestSave"
    /\ handlers'[h].kind = "idle"

\* C25: the ledger write reports true exactly when it inserted a row: it
\* returns true after appending one row, and false, with the ledger unchanged,
\* when a row for the (plate, order id) already existed.
C25_LedgerReportsInsertion ==
    [][\A h \in Handlers :
           /\ LedgerInserted(h)
                  => lastResp'.saved = TRUE /\ Len(guests') = Len(guests) + 1
           /\ LedgerFound(h)
                  => lastResp'.saved = FALSE /\ guests' = guests]_vars

\* the response just sent delivers a signal armed by POST /trigger-gate
DeliversTriggered ==
    /\ lastResp.route = "poll-gate"
    /\ lastResp.triggered
    /\ gateHist.armed
    /\ gateHist.by = "trigger-gate"

\* C26: poll-gate returns the plate and the reason of the signal it delivers:
\* after arm-gate(plate, reason) the triggered response carries that plate
\* and that reason.
C26_PollReturnsReason ==
    DeliversTriggered
        => /\ lastResp.plate = PlateOrUnknown(gateHist.plate)
           /\ "reason" \in DOMAIN lastResp
           /\ lastResp.reason = gateHist.reason

\* the step answers a whitelist check
CheckAnswers == lastResp'.route = "check"

\* C27: a whitelist check arms the mailbox exactly when the uppercased plate
\* is in the whitelist: on a hit the slot holds that plate with expiry ten
\* seconds after the check, on a miss the slot is left as it was.
C27_CheckArmsIffListed ==
    [][CheckAnswers
          => LET plate == toUpperCase(lastResp'.req) IN
             /\ lastResp'.exists <=> plate \in numbers
             /\ plate \in numbers
                    => /\ gateTriggerFlag'
                       /\ gateTriggerPlate' = plate
                       /\ gateTriggerTimestamp' = now'
                       /\ gateTriggerExpiry' = now' + GateTTL
             /\ plate \notin numbers => UNCHANGED gateVars]_vars

\* a check of a plate sent in lower case has armed the slot for its upper case
C27_Witness ==
    /\ lastResp.route = "check"
    /\ lastResp.exists
    /\ lastResp.req = PlateDLlower
    /\ gateTriggerFlag
    /\ gateTriggerPlate = PlateDL

\* a check missed while the slot held an unread signal for another plate, and
\* while the whitelist held the checked plate in lower case only
C27_WitnessMiss ==
    /\ lastResp.route = "check"
    /\ ~lastResp.exists
    /\ lastResp.req = PlateDLlower
    /\ PlateDLlower \in numbers
    /\ gateTriggerFlag
    /\ gateTriggerPlate = PlateMH

\* the step answers a get-by-plate request
ByPlateAnswers ==
    /\ lastResp'.route = "by-plate"
    /\ UNCHANGED <<now, dbVars, gateVars, handlers, gateHist, payHist>>

\* C28: get-by-plate reports paid exactly when some record of the uppercased
\* plate is completed, and returns a completed record of that plate that no
\* other was paid after; a plate with only pending records is reported unpaid.
C28_ByPlateLatestCompleted ==
    [][ByPlateAnswers
          => LET done == {i \in Records :
                             /\ payments[i].numberPlate = toUpperCase(lastResp'.req)
                             /\ payments[i].status = "completed"} IN
             /\ lastResp'.paid <=> done # {}
             /\ lastResp'.paid
                    => /\ lastResp'.idx \in done
                       /\ lastResp'.payment = payments[lastResp'.idx]
                       /\ \A j \in done :
                              payments[j].paidAt <= payments[lastResp'.idx].paidAt]_vars

\* get-by-plate returned the later paid of two completed records of the plate,
\* asked for in lower case
C28_Witness ==
    /\ lastResp.route = "by-plate"
    /\ lastResp.paid
    /\ lastResp.req = PlateDLlower
    /\ \E j \in Records :
           /\ j < lastResp.idx
           /\ payments[j].numberPlate = PlateDL
           /\ payments[j].status = "completed"
           /\ payments[j].paidAt < lastResp.payment.paidAt

\* get-by-plate reported a plate unpaid while its only record was pending
C28_WitnessPending ==
    /\ lastResp.route = "by-plate"
    /\ ~lastResp.paid
    /\ lastResp.req = PlateDLlower
    /\ \E j \in Records : payments[j].numberPlate = PlateDL /\ payments[j].status = "pending"

\* C29: no two pending payment records share a plate, whatever create-payment
\* requests are in flight together.
C29_OnePendingPerPlate ==
    \A i \in Records : \A j \in Records :
        (/\ i # j
         /\ payments[i].status = "pending"
         /\ payments[j].status = "pending")
            => payments[i].numberPlate # payments[j].numberPlate

\* C30: every completed payment record carries an external payment id,
\* whichever path completed it.
C30_CompletedHasPaymentId ==
    \A i \in Records :
        payments[i].status = "completed" => payments[i].razorpayPaymentId # NullStr

\* the last request answered found its record already completed
FoundCompleted ==
    /\ "outcome" \in DOMAIN lastResp
    /\ lastResp.outcome = "already"

\* C31: every completed record gets its ledger row: once a later poll, webhook
\* delivery or manual-verify on a completed record has been answered and no
\* handler is in flight, the record has a row for its plate and order id, even
\* if the ledger write of the completing handler failed.
C31_LedgerRowRepaired ==
    (Quiescent /\ FoundCompleted) => RowsOf(lastResp.idx) # {}

\* the gateway's answers to the poll whose gateway step this is
AnswersNow(h) ==
    IF handlers'[h].kind = "idle" THEN lastResp'.req.answers
    ELSE handlers'[h].req.answers

\* every poll that hears from the gateway in this step is answered, with the
\* first-listed payment of the order captured or authorized
GatewayGood ==
    \A h \in Handlers :
        (/\ handlers[h].kind = "status"
         /\ handlers[h].pc = "gateway"
         /\ (handlers'[h].kind = "idle" \/ handlers'[h].pc = "save"))
            => /\ AnswersNow(h).order.ok
               /\ OrderPaymentsPositive(AnswersNow(h))

\* C32: liveness by re-polling: if from some point on the gateway always
\* answers and reports the order's first-listed payment captured or
\* authorized, and the client keeps polling, the record eventually is
\* completed and stays completed.
C32_RepollingCompletes ==
    <>[][GatewayGood]_pcs
        => <>[](Len(payments) >= 1 => payments[1].status = "completed")

\* a poll answered by such a gateway has completed the record
C32_Witness ==
    /\ lastResp.route = "status"
    /\ lastResp.outcome = "won"
    /\ OrderPaymentsPositive(lastResp.req.answers)
    /\ payments[lastResp.idx].status = "completed"

\* this step answers a delivery of the event whose previous delivery was the
\* last request answered, and had completed its record
Redelivered ==
    /\ lastResp.route = "webhook"
    /\ lastResp.outcome = "won"
    /\ HookResponds
    /\ lastResp'.req.event = lastResp.req.event
    /\ lastResp'.req.payload = lastResp.req.payload
    /\ lastResp'.code = 200

\* C33: webhook redelivery is idempotent: a second delivery of a completion
\* event, after the first has completed the record and finished, finds the
\* same record completed and leaves its status, paid-at and payment id, and
\* the ledger, as they were.
C33_RedeliveryIdempotent ==
    [][Redelivered
          => /\ lastResp'.outcome = "already"
             /\ lastResp'.idx = lastResp.idx
             /\ payHist' = payHist
             /\ UNCHANGED <<payments, guests>>]_vars

\* the event that completed a record has been delivered again and answered
C33_Witness ==
    /\ Quiescent
    /\ lastResp.route = "webhook"
    /\ lastResp.outcome = "already"
    /\ payments[lastResp.idx].status = "completed"
    /\ payments[lastResp.idx].razorpayPaymentId = lastResp.req.ids.paymentId
    /\ payHist[lastResp.idx].saves = 1
    /\ Cardinality(RowsOf(lastResp.idx)) = 1

\* C34: when no handler is in flight, each ledger row carries the payment id
\* and the paid-at of the payment record with its order id, also after a
\* webhook delivery and a poll raced on that order with different payment ids.
C34_LedgerAgreesWithRecord ==
    Quiescent
        => \A k \in 1..Len(guests) : \A i \in Records :
               payments[i].razorpayOrderId = guests[k].razorpayOrderId
                   => /\ payments[i].status = "completed"
                      /\ guests[k].razorpayPaymentId = payments[i].razorpayPaymentId
                      /\ guests[k].paidAt = payments[i].paidAt

\* the lookups get-status has at the gateway (index.js:380, 383, 437, 471)
GatewayLookups ==
    {"orders.fetch", "orders.fetchPayments", "paymentLink.fetch", "payments.all"}

\* calls holds lookups of the gateway, none of them twice
OncePerLookup(calls) ==
    /\ \A k \in 1..Len(calls) : calls[k] \in GatewayLookups
    /\ \A k \in 1..Len(calls) : \A l \in 1..Len(calls) : calls[k] = calls[l] => k = l

\* handler h is a poll that goes from one await to the next in this step
PollGoesOn(h) ==
    /\ handlers[h].kind = "status"
    /\ handlers'[h].kind = "status"
    /\ handlers'[h].pc # handlers[h].pc

\* handler h is a poll that ends in this step
PollEnds(h) == handlers[h].kind = "status" /\ handlers'[h].kind = "idle"

\* C35: every get-status poll terminates after a bounded number of gateway
\* calls, at most one per lookup, and produces exactly one response: it makes
\* each call at most once whatever the gateway answers, sends nothing before
\* it ends, ends with its response, and always ends.
C35_PollTerminates ==
    /\ [][\A h \in Handlers :
              /\ PollTakesUp(h) => OncePerLookup(handlers'[h].req.calls)
              /\ PollAnswers(h) => OncePerLookup(lastResp'.req.calls)
              /\ PollGoesOn(h) => lastResp' = lastResp
              /\ PollEnds(h) => lastResp'.route = "status" /\ lastResp'.idx = handlers[h].idx]_pcs
    /\ (handlers[1].kind = "status") ~> (handlers[1].kind = "idle")

\* a poll has been answered after all four lookups, one of them failing
C35_Witness ==
    /\ lastResp.route = "status"
    /\ lastResp.outcome = "unchanged"
    /\ Len(lastResp.req.calls) = Cardinality(GatewayLookups)
    /\ ~lastResp.req.answers.link.ok

\* payment id is the only key of the triple that resolves a record
OnlyByPaymentId(ids) ==
    /\ ByOrderId(ids) = {}
    /\ ByLinkId(ids) = {}
    /\ ByPaymentId(ids) # {}

\* every record that carries a payment id is completed
PaymentIdMeansCompleted ==
    \A i \in Records :
        payments[i].razorpayPaymentId # NullStr => payments[i].status = "completed"

\* C36: a payment record with a payment id is completed, in every reachable
\* state; so a webhook that resolves its record only through the payment-id
\* lookup finds it completed and changes no state.
C36_PaymentIdLookupInert ==
    [][/\ PaymentIdMeansCompleted'
       /\ (/\ HookResponds
           /\ lastResp'.outcome \in {"already", "won"}
           /\ OnlyByPaymentId(lastResp'.req.ids))
              => lastResp'.outcome = "already" /\ NoStateChange
       /\ \A h \in Handlers :
              TakesUp(h) => ~OnlyByPaymentId(handlers'[h].req.ids)]_vars

\* a webhook whose order id and link id resolve nothing was answered on the
\* completed record its payment id resolves
C36_Witness ==
    /\ lastResp.route = "webhook"
    /\ lastResp.outcome = "already"
    /\ OnlyByPaymentId(lastResp.req.ids)
    /\ lastResp.req.ids.orderId # NullStr
    /\ payments[lastResp.idx].razorpayPaymentId = lastResp.req.ids.paymentId
    /\ payments[lastResp.idx].status = "completed"

\* every ledger row has a completed payment record with its plate and order id
RowsHaveCompletedRecord ==
    \A k \in 1..Len(guests) :
        \E i \in Records :
            /\ payments[i].numberPlate = guests[k].numberPlate
            /\ payments[i].razorpayOrderId = guests[k].razorpayOrderId
            /\ payments[i].status = "completed"

\* C37: every ledger row corresponds to a completed payment record with the
\* same plate and order id, in every reachable state, and no operation
\* modifies or removes a row once it is written.
C37_LedgerRowsBackedAndKept ==
    [][/\ RowsHaveCompletedRecord'
       /\ Len(guests') >= Len(guests)
       /\ \A k \in 1..Len(guests) : guests'[k] = guests[k]]_vars

\* the ledger was listed with its row while a second completing handler, which
\* loaded the record before the row was written, is still in flight
C37_Witness ==
    /\ lastResp.route = "guests"
    /\ lastResp.rows # {}
    /\ Len(guests) >= 1
    /\ \E h \in Handlers : handlers[h].kind \in {"status", "webhook", "verify"}

====
